---- MODULE Spec2Model ----
(***************************************************************************)
(* Model of page_rank.py: find_dangling_nodes, random_surfer, page_rank    *)
(* and the descending sort both algorithms return.                         *)
(*                                                                         *)
(* Scores are Python floats in the source.  The model computes them as     *)
(* exact rationals: every score of a run is a signed numerator over the    *)
(* one denominator `den`, and each arithmetic step of page_rank scales     *)
(* numerators and denominator by the same factor Scale, so that no         *)
(* division is ever rounded.  Numerators outgrow machine integers, so      *)
(* they are kept as digit sequences (little-endian, base Base).            *)
(* The damping factor m is kept as the numerator of m / MDen.              *)
(***************************************************************************)
EXTENDS Integers, Sequences, FiniteSets, TLC

\* ------------------------------------------------------------------ bounds
MaxNodes == 2
MaxIter == 3
MaxWalk == 2

\* m is represented as m / MDen; 0.15 = 3 / 20
MDen == 20
Base == 1000000

\* ------------------------------------------------- exact natural numbers
RECURSIVE NStrip(_)
NStrip(a) ==
    IF a = <<>> THEN <<>>
    ELSE IF a[Len(a)] = 0 THEN NStrip(SubSeq(a, 1, Len(a) - 1))
    ELSE a

RECURSIVE NFromInt(_)
NFromInt(i) ==
    IF i = 0 THEN <<>> ELSE <<i % Base>> \o NFromInt(i \div Base)

RECURSIVE NAddC(_, _, _)
NAddC(a, b, c) ==
    IF a = <<>> /\ b = <<>> THEN NFromInt(c)
    ELSE LET da == IF a = <<>> THEN 0 ELSE Head(a)
             db == IF b = <<>> THEN 0 ELSE Head(b)
             ta == IF a = <<>> THEN <<>> ELSE Tail(a)
             tb == IF b = <<>> THEN <<>> ELSE Tail(b)
             s  == da + db + c
         IN  <<s % Base>> \o NAddC(ta, tb, s \div Base)

NAdd(a, b) == NAddC(a, b, 0)

\* a - b for a >= b
RECURSIVE NSubB(_, _, _)
NSubB(a, b, c) ==
    IF a = <<>> THEN <<>>
    ELSE LET db == IF b = <<>> THEN 0 ELSE Head(b)
             tb == IF b = <<>> THEN <<>> ELSE Tail(b)
             s  == Head(a) - db - c
         IN  IF s < 0 THEN <<s + Base>> \o NSubB(Tail(a), tb, 1)
             ELSE <<s>> \o NSubB(Tail(a), tb, 0)

NSub(a, b) == NStrip(NSubB(a, b, 0))

\* a * c for a small natural c
RECURSIVE NMulC(_, _, _)
NMulC(a, c, carry) ==
    IF a = <<>> THEN NFromInt(carry)
    ELSE LET s == Head(a) * c + carry
         IN  <<s % Base>> \o NMulC(Tail(a), c, s \div Base)

NMulS(a, c) == IF c = 0 THEN <<>> ELSE NMulC(a, c, 0)

RECURSIVE NLessFrom(_, _, _)
NLessFrom(a, b, i) ==
    IF i = 0 THEN FALSE
    ELSE IF a[i] # b[i] THEN a[i] < b[i]
    ELSE NLessFrom(a, b, i - 1)

NLess(a, b) ==
    IF Len(a) # Len(b) THEN Len(a) < Len(b) ELSE NLessFrom(a, b, Len(a))

\* ------------------------------------------------- exact signed numbers
Z(neg, mag) == [neg |-> neg /\ mag # <<>>, mag |-> mag]
ZZero == Z(FALSE, <<>>)
ZOne == Z(FALSE, <<1>>)
ZNat(a) == Z(FALSE, a)

ZAdd(a, b) ==
    IF a.neg = b.neg THEN Z(a.neg, NAdd(a.mag, b.mag))
    ELSE IF NLess(a.mag, b.mag) THEN Z(b.neg, NSub(b.mag, a.mag))
    ELSE Z(a.neg, NSub(a.mag, b.mag))

ZMulS(a, c) ==
    IF c < 0 THEN Z(~a.neg, NMulS(a.mag, -c)) ELSE Z(a.neg, NMulS(a.mag, c))

ZLess(a, b) ==
    IF a.neg # b.neg THEN a.neg
    ELSE IF a.neg THEN NLess(b.mag, a.mag)
    ELSE NLess(a.mag, b.mag)

\* ---------------------------------------------------------------- state
VARIABLES
    fn,             \* the function called: "page_rank" or "random_surfer"
    nodes,          \* G.nodes(): the nodes of G in the graph's iteration order
    adj,            \* G.neighbors: node -> set of out-neighbors
    m,              \* damping factor, as the numerator of m / MDen
    n,              \* iteration count
    pc,             \* position: "call", "iter", "pass", "walk", "done", "error"
    err,            \* the exception that ended the call, "" if none
    it,             \* completed iterations of the outer loop (for _ in range(n))
    pos,            \* page_rank: index in nodes of the next node of the pass
    dangling_nodes, \* page_rank: result of find_dangling_nodes(G)
    x,              \* page_rank: node -> numerator of its score over den
    den,            \* page_rank: the denominator of all scores and of D
    D,              \* page_rank: numerator of D over den
    visited,        \* random_surfer: node -> number of visits
    node,           \* random_surfer: the current node
    move,           \* random_surfer: branch the last step took
    result          \* the returned mapping, as a sequence of <<node, score>>

vars == <<fn, nodes, adj, m, n, pc, err, it, pos, dangling_nodes, x, den, D,
          visited, node, move, result>>

\* ---------------------------------------------------------------- graph
Range(s) == {s[i] : i \in 1..Len(s)}

\* node identifiers: {0, 1}, {0} are zero-based and contiguous, {1, 2}, {0, 2}, {1}, {2} are not
NodeIds == {0, 1, 2}

Perms(S) ==
    {s \in [1..Cardinality(S) -> S] : \A i, j \in 1..Cardinality(S) : s[i] = s[j] => i = j}

NodeSeqs ==
    UNION {Perms(S) : S \in {T \in SUBSET NodeIds : Cardinality(T) <= MaxNodes}}

size == Len(nodes)

Neighbors(v) == adj[v]

Edges == {e \in Range(nodes) \X Range(nodes) : e[2] \in adj[e[1]]}

\* nx.reverse(G).neighbors(v)
Backlinks(v) == {u \in Range(nodes) : v \in adj[u]}

\* mutant: collects edge[1], the target of every edge
NondanglingTargets == {e[2] : e \in Edges}

NondanglingNodes == {e[1] : e \in Edges}

find_dangling_nodes ==
    SelectSeq(nodes, LAMBDA v : v \notin NondanglingNodes)

\* ------------------------------------------------------------- ranking
ScoreLess(a, b) == IF fn = "page_rank" THEN ZLess(a, b) ELSE a < b

\* index at which e goes into the descending sequence s: before the first
\* entry whose score is strictly smaller, after every entry with an equal one
\* mutant: an entry goes before the entries with an equal score
RECURSIVE InsertAtTiesFirst(_, _, _)
InsertAtTiesFirst(s, e, i) ==
    IF i > Len(s) THEN i
    ELSE IF ~ScoreLess(e[2], s[i][2]) THEN i
    ELSE InsertAtTiesFirst(s, e, i + 1)

\* mutant: ascending order (reverse=True left out)
RECURSIVE InsertAtAscending(_, _, _)
InsertAtAscending(s, e, i) ==
    IF i > Len(s) THEN i
    ELSE IF ScoreLess(e[2], s[i][2]) THEN i
    ELSE InsertAtAscending(s, e, i + 1)

RECURSIVE InsertAt(_, _, _)
InsertAt(s, e, i) ==
    IF i > Len(s) THEN i
    ELSE IF ScoreLess(s[i][2], e[2]) THEN i
    ELSE InsertAt(s, e, i + 1)

Insert(s, e) ==
    LET i == InsertAt(s, e, 1)
    IN  SubSeq(s, 1, i - 1) \o <<e>> \o SubSeq(s, i, Len(s))

RECURSIVE SortedFrom(_, _, _)
SortedFrom(items, acc, i) ==
    IF i > Len(items) THEN acc
    ELSE SortedFrom(items, Insert(acc, items[i]), i + 1)

\* dict(sorted(d.items(), key=lambda x: x[1], reverse=True))
Sorted(items) == SortedFrom(items, <<>>, 1)

Items(d) == [i \in 1..Len(nodes) |-> <<nodes[i], d[nodes[i]]>>]

\* ---------------------------------------------------------------- inputs
MNums == {-1, 0, 3, MDen, MDen + 1}

Init ==
    /\ fn \in {"page_rank", "random_surfer"}
    /\ nodes \in NodeSeqs
    /\ adj \in [Range(nodes) -> SUBSET Range(nodes)]
    /\ m \in MNums
    /\ n \in -1..(IF fn = "page_rank" THEN MaxIter ELSE MaxWalk)
    /\ pc = "call"
    /\ err = ""
    /\ it = 0
    /\ pos = 0
    /\ dangling_nodes = <<>>
    /\ x = <<>>
    /\ den = <<>>
    /\ D = ZZero
    /\ visited = <<>>
    /\ node = 0
    /\ move = "none"
    /\ result = <<>>

\* ------------------------------------------------------------- page_rank
RECURSIVE Fact(_)
Fact(k) == IF k <= 1 THEN 1 ELSE k * Fact(k - 1)

\* every step of page_rank multiplies den by Scale: MDen for (1-m) and m,
\* size for /size, Fact(size) for every 1/len(G.neighbors(backlink))
Scale == MDen * size * Fact(size)

RECURSIVE SumSeq(_, _)
SumSeq(s, f) ==
    IF s = <<>> THEN ZZero ELSE ZAdd(f[Head(s)], SumSeq(Tail(s), f))

\* sum over backlinks of scores[i] * x[backlink], over den * Fact(size)
RECURSIVE SumBack(_, _)
SumBack(bs, f) ==
    IF bs = {} THEN ZZero
    ELSE LET u == CHOOSE b \in bs : TRUE
         IN  ZAdd(ZMulS(f[u], Fact(size) \div Cardinality(Neighbors(u))),
                  SumBack(bs \ {u}, f))

\* mutant: the dangling mass without its factor (1-m)
DanglingMassUndamped(f) == ZMulS(SumSeq(dangling_nodes, f), MDen * Fact(size))

\* D = (1-m)*sum(x[node]/size for node in dangling_nodes), over den * Scale
DanglingMass(f) == ZMulS(SumSeq(dangling_nodes, f), (MDen - m) * Fact(size))

\* A = (1-m) * A, over q * Scale
LinkMass(v, f) == ZMulS(SumBack(Backlinks(v), f), (MDen - m) * size)

\* S = m * 1/size, over q * Scale
Teleport(q) == ZMulS(ZNat(q), m * Fact(size))

\* x[node] = A + D + S, over den * Scale (d is D over den)
NewScore(v, f, d, q) == ZAdd(ZAdd(LinkMass(v, f), ZMulS(d, Scale)), Teleport(q))

PRSetup ==
    /\ pc = "call" /\ fn = "page_rank"
    /\ IF size = 0
       THEN /\ pc' = "error" /\ err' = "ZeroDivisionError"
            /\ UNCHANGED <<dangling_nodes, x, den>>
       ELSE /\ dangling_nodes' = find_dangling_nodes
            /\ x' = [v \in Range(nodes) |-> ZOne]
            /\ den' = NFromInt(size)
            /\ pc' = "iter" /\ err' = err
    /\ UNCHANGED <<fn, nodes, adj, m, n, it, pos, D, visited, node, move, result>>

PRIterStart ==
    /\ pc = "iter" /\ fn = "page_rank" /\ it < n
    /\ D' = DanglingMass(x)
    /\ x' = [v \in Range(nodes) |-> ZMulS(x[v], Scale)]
    /\ den' = NMulS(den, Scale)
    /\ pos' = 1
    /\ pc' = "pass"
    /\ UNCHANGED <<fn, nodes, adj, m, n, err, it, dangling_nodes,
                   visited, node, move, result>>

PRNode ==
    /\ pc = "pass" /\ fn = "page_rank"
    /\ x' = [v \in Range(nodes) |->
                IF v = nodes[pos] THEN NewScore(v, x, D, den)
                ELSE ZMulS(x[v], Scale)]
    /\ D' = ZMulS(D, Scale)
    /\ den' = NMulS(den, Scale)
    /\ IF pos < size
       THEN pos' = pos + 1 /\ UNCHANGED <<pc, it>>
       ELSE pos' = 0 /\ pc' = "iter" /\ it' = it + 1
    /\ UNCHANGED <<fn, nodes, adj, m, n, err, dangling_nodes,
                   visited, node, move, result>>

PRReturn ==
    /\ pc = "iter" /\ fn = "page_rank" /\ it >= n
    /\ result' = Sorted(Items(x))
    /\ pc' = "done"
    /\ UNCHANGED <<fn, nodes, adj, m, n, err, it, pos, dangling_nodes, x, den, D,
                   visited, node, move>>

\* --------------------------------------------------------- random_surfer
\* values random.random() can return, as numerators over MDen
RDraws == {0, 2, MDen \div 2, MDen - 1}

\* maximum index
nc == size - 1

\* mutant: the test for a node without neighbors left out
TeleportsOnDraw(v, r) == r < m

Teleports(v, r) == Neighbors(v) = {} \/ r < m

\* mutant: the counter is set, not incremented
VisitOnce(f, v) == [f EXCEPT ![v] = 1]

Visit(f, v) == [f EXCEPT ![v] = @ + 1]

RSStart ==
    /\ pc = "call" /\ fn = "random_surfer"
    /\ visited' = [v \in Range(nodes) |-> 0]
    /\ IF nc < 0
       THEN pc' = "error" /\ err' = "ValueError" /\ node' = node
       ELSE pc' = "walk" /\ err' = err /\ node' \in 0..nc
    /\ UNCHANGED <<fn, nodes, adj, m, n, it, pos, dangling_nodes, x, den, D,
                   move, result>>

RSStep ==
    /\ pc = "walk" /\ fn = "random_surfer" /\ it < n
    /\ IF node \notin Range(nodes)
       THEN /\ pc' = "error" /\ err' = "KeyError"
            /\ UNCHANGED <<visited, node, move, it>>
       ELSE /\ visited' = Visit(visited, node)
            /\ \E r \in RDraws :
                 IF Teleports(node, r)
                 THEN /\ node' \in 0..nc
                      /\ move' = "teleport"
                      /\ it' = it + 1
                      /\ UNCHANGED <<pc, err>>
                 ELSE IF Neighbors(node) = {}
                 THEN /\ pc' = "error" /\ err' = "IndexError"
                      /\ UNCHANGED <<node, move, it>>
                 ELSE /\ node' \in Neighbors(node)
                      /\ move' = "follow"
                      /\ it' = it + 1
                      /\ UNCHANGED <<pc, err>>
    /\ UNCHANGED <<fn, nodes, adj, m, n, pos, dangling_nodes, x, den, D, result>>

RSReturn ==
    /\ pc = "walk" /\ fn = "random_surfer" /\ it >= n
    /\ result' = Sorted(Items(visited))
    /\ pc' = "done"
    /\ UNCHANGED <<fn, nodes, adj, m, n, err, it, pos, dangling_nodes, x, den, D,
                   visited, node, move>>

\* --------------------------------------------------------- specification
Next ==
    \/ PRSetup
    \/ PRIterStart
    \/ PRNode
    \/ PRReturn
    \/ RSStart
    \/ RSStep
    \/ RSReturn

Spec == Init /\ [][Next]_vars

\* page_rank alone
InitPR == Init /\ fn = "page_rank"

NextPR ==
    \/ PRSetup
    \/ PRIterStart
    \/ PRNode
    \/ PRReturn

SpecPR == InitPR /\ [][NextPR]_vars

\* random_surfer alone
InitRS == Init /\ fn = "random_surfer"

NextRS ==
    \/ RSStart
    \/ RSStep
    \/ RSReturn

SpecRS == InitRS /\ [][NextRS]_vars

\* ================================================================ claims
ValidM == m \in 0..MDen

Index(v) == CHOOSE i \in 1..Len(nodes) : nodes[i] = v

SumScores == SumSeq(nodes, x)

RECURSIVE SumVisits(_)
SumVisits(s) == IF s = <<>> THEN 0 ELSE visited[Head(s)] + SumVisits(Tail(s))

\* C1: for a graph with at least one node, m in [0,1] and n >= 1, the scores
\* of page_rank sum to 1 after each iteration and in the returned mapping.
MassConserved ==
    (fn = "page_rank" /\ ValidM /\ n >= 1 /\ pc \in {"iter", "done"} /\ it >= 1)
        => SumScores = ZNat(den)

\* the double-buffered power iteration of the specification: every new score
\* is computed from the previous iteration's scores y (over q) only
RECURSIVE ZScaleBy(_, _)
ZScaleBy(a, k) == IF k = 0 THEN a ELSE ZScaleBy(ZMulS(a, Scale), k - 1)

RECURSIVE NScaleBy(_, _)
NScaleBy(a, k) == IF k = 0 THEN a ELSE NScaleBy(NMulS(a, Scale), k - 1)

RefDen(k) == NScaleBy(NFromInt(size), k * (size + 1))

RefPass(y, q) ==
    [v \in Range(nodes) |->
        ZScaleBy(ZAdd(ZAdd(LinkMass(v, y), DanglingMass(y)), Teleport(q)), size)]

RECURSIVE RefScores(_)
RefScores(k) ==
    IF k = 0 THEN [v \in Range(nodes) |-> ZOne]
    ELSE RefPass(RefScores(k - 1), RefDen(k - 1))

\* C2: after every iteration of page_rank, and in the result, the scores equal
\* those of the double-buffered power iteration (no new score reads a score
\* written in the same pass).
SimultaneousUpdate ==
    (fn = "page_rank" /\ ValidM /\ pc \in {"iter", "done"})
        => (den = RefDen(it) /\ x = RefScores(it))

\* C3: the visit counters of random_surfer sum to the number of steps taken,
\* and the counters returned sum to n.
CounterSum ==
    (fn = "random_surfer" /\ pc # "call")
        => /\ SumVisits(nodes) = it
           /\ (pc = "done" /\ n >= 0) => SumVisits(nodes) = n

CounterSumWitness ==
    /\ fn = "random_surfer" /\ pc = "done" /\ n = MaxWalk
    /\ \E v \in Range(nodes) : visited[v] >= 2
    /\ \E v \in Range(nodes) : Neighbors(v) = {}

\* C4: in random_surfer the current node (start node, teleport target or
\* neighbor) is always a node of the graph and has a visit counter, whatever
\* the node identifiers.
CurrentNodeInGraph ==
    (fn = "random_surfer" /\ ValidM /\ n >= 1 /\ pc = "walk")
        => (node \in Range(nodes) /\ node \in DOMAIN visited)

\* C5: a damping factor outside [0,1] or an iteration count n <= 0 is rejected
\* with InvalidParameter before any computation, and nothing is returned.
InvalidRejected ==
    (size >= 1 /\ (~ValidM \/ n <= 0))
        => /\ pc = "call" \/ (pc = "error" /\ err = "InvalidParameter")
           /\ result = <<>>

Score(v) == IF fn = "page_rank" THEN x[v] ELSE visited[v]

\* C6: the returned mapping lists every node of the graph once, by score
\* descending, nodes with equal scores in the graph's iteration order.
RankedStable ==
    pc = "done"
        => /\ Len(result) = Len(nodes)
           /\ {result[i][1] : i \in 1..Len(result)} = Range(nodes)
           /\ \A i \in 1..Len(result) : result[i][2] = Score(result[i][1])
           /\ \A i, j \in 1..Len(result) :
                i < j => /\ ~ScoreLess(result[i][2], result[j][2])
                         /\ result[i][2] = result[j][2]
                               => Index(result[i][1]) < Index(result[j][1])

RankedStableWitness ==
    /\ pc = "done" /\ Len(result) >= 2
    /\ \E i \in 1..(Len(result) - 1) : result[i][2] = result[i + 1][2]

IsolatedNode == size = 1 /\ adj[nodes[1]] = {}

\* C7: for one node without edges the score of that node is 1 after every
\* iteration, for every m in [0,1].
IsolatedNodeScore ==
    (fn = "page_rank" /\ IsolatedNode /\ ValidM /\ pc \in {"iter", "pass", "done"})
        => x[nodes[1]] = ZNat(den)

IsolatedNodeWitness ==
    /\ fn = "page_rank" /\ IsolatedNode /\ m = 3 /\ pc = "done" /\ it = MaxIter

OneToTwo ==
    /\ Range(nodes) = {1, 2}
    /\ adj[1] = {2}
    /\ adj[2] = {}

\* C8: for the graph 1 -> 2 and m = 0.15, node 2 scores strictly more than
\* node 1 after every iteration, and is first in the returned mapping.
DanglingOutranks ==
    (fn = "page_rank" /\ OneToTwo /\ m = 3)
        => /\ (pc \in {"iter", "done"} /\ it >= 1) => ZLess(x[1], x[2])
           /\ (pc = "done" /\ n >= 1) => result[1][1] = 2

DanglingOutranksWitness ==
    /\ fn = "page_rank" /\ OneToTwo /\ m = 3 /\ pc = "done" /\ it = MaxIter
    /\ result[1][1] = 2

\* C9: find_dangling_nodes returns the nodes of the graph that have no
\* out-neighbor, each once.
DanglingExact ==
    (fn = "page_rank" /\ pc \notin {"call", "error"})
        => /\ Range(dangling_nodes) \subseteq Range(nodes)
           /\ \A v \in Range(nodes) :
                v \in Range(dangling_nodes) <=> Cardinality(Neighbors(v)) = 0
           /\ Cardinality(Range(dangling_nodes)) = Len(dangling_nodes)

DanglingExactWitness ==
    /\ fn = "page_rank" /\ pc = "iter"
    /\ \E a, b \in Range(nodes) :
         /\ a # b
         /\ adj[a] = {a}
         /\ adj[b] = {}
         /\ dangling_nodes = <<b>>

\* C10: a step of random_surfer from a node of the graph always moves: it
\* teleports (to an index in 0..nc) from a node without out-neighbors, whatever
\* m; otherwise it teleports or follows an edge to an out-neighbor, and with
\* m = 0 it follows an edge.
WalkMoves ==
    [][(pc = "walk" /\ it < n /\ node \in Range(nodes))
          => /\ pc' = "walk" /\ it' = it + 1
             /\ move' \in {"teleport", "follow"}
             /\ Neighbors(node) = {} => move' = "teleport"
             /\ move' = "teleport" => node' \in 0..nc
             /\ move' = "follow" => node' \in Neighbors(node)
             /\ (m = 0 /\ Neighbors(node) # {}) => move' = "follow"]_vars

WalkMovesWitness ==
    /\ fn = "random_surfer" /\ pc = "walk" /\ m = 0 /\ it = MaxWalk
    /\ move = "teleport"
    /\ \E v \in Range(nodes) : Neighbors(v) # {} /\ visited[v] > 0

====
